---- MODULE Spec2Model ----
(***************************************************************************)
(* Book catalogue service (FastAPI + SQLAlchemy): the store of users,      *)
(* books and reviews, the handlers that fill it, the recommendation query  *)
(* of GET /recommendations and the rating aggregate / review summary of    *)
(* GET /books/{id}/summary, registration, login and bearer tokens.         *)
(*                                                                         *)
(* Text is a sequence of one-character strings, so that split, strip,      *)
(* int() and LIKE are computed character by character.  Ratings and        *)
(* min_rating are counted in hundredths of a star (500 is 5.0).            *)
(* An Optional[T] value is <<>> (None) or <<v>>.  Time is counted in       *)
(* minutes.                                                                *)
(***************************************************************************)
EXTENDS Integers, Sequences, FiniteSets, Bags, TLC

VARIABLES users, books, reviews, request, response, provider_calls,
          clock, ACCESS_TOKEN_EXPIRE_MINUTES, issued, reg

vars == <<users, books, reviews, request, response, provider_calls,
          clock, ACCESS_TOKEN_EXPIRE_MINUTES, issued, reg>>

(* the wall clock, the configured token lifetime, the tokens handed out by
   POST /login and the POST /register calls in progress: what the handlers of
   the catalogue leave alone *)
session == <<clock, ACCESS_TOKEN_EXPIRE_MINUTES, issued, reg>>

(* ------------------------------ bounds -------------------------------- *)

MaxBooks == 1

MaxReviews == 3

SeedBooks == 11

(* --------------------------- Optional values -------------------------- *)

None == <<>>

Some(v) == <<v>>

IsSome(o) == o # <<>>

Val(o) == o[1]

(* ------------------------------- text --------------------------------- *)

WS == {" "}

LowerMap == [c \in {"S", "F", "H", "X"} |->
               CASE c = "S" -> "s" [] c = "F" -> "f" [] c = "H" -> "h" [] c = "X" -> "x"]

LowerChar(c) == IF c \in DOMAIN LowerMap THEN LowerMap[c] ELSE c

Lower(s) == [i \in 1..Len(s) |-> LowerChar(s[i])]

RECURSIVE LStrip(_)
LStrip(s) == IF s # <<>> /\ Head(s) \in WS THEN LStrip(Tail(s)) ELSE s

RECURSIVE RStrip(_)
RStrip(s) ==
  IF s # <<>> /\ s[Len(s)] \in WS THEN RStrip(SubSeq(s, 1, Len(s) - 1)) ELSE s

Strip(s) == RStrip(LStrip(s))

(* str.split(","): the pieces between commas, empty pieces included *)
RECURSIVE SplitFrom(_, _)
SplitFrom(s, cur) ==
  IF s = <<>> THEN <<cur>>
  ELSE IF Head(s) = "," THEN <<cur>> \o SplitFrom(Tail(s), <<>>)
  ELSE SplitFrom(Tail(s), Append(cur, Head(s)))

Split(s) == SplitFrom(s, <<>>)

(* SQL LIKE: % is any run of characters, _ is any one character *)
RECURSIVE Like(_, _)
Like(s, p) ==
  IF p = <<>> THEN s = <<>>
  ELSE IF Head(p) = "%" THEN Like(s, Tail(p)) \/ (s # <<>> /\ Like(Tail(s), p))
  ELSE /\ s # <<>>
       /\ (Head(p) = "_" \/ Head(p) = Head(s))
       /\ Like(Tail(s), Tail(p))

(* Column.ilike(pattern): LIKE on the lower-cased column and pattern *)
ilike(s, p) == Like(Lower(s), Lower(p))

DigitVal == ("0" :> 0) @@ ("1" :> 1) @@ ("2" :> 2) @@ ("3" :> 3) @@ ("4" :> 4) @@
            ("5" :> 5) @@ ("6" :> 6) @@ ("7" :> 7) @@ ("8" :> 8) @@ ("9" :> 9)

RECURSIVE DigitsValue(_, _)
DigitsValue(s, acc) ==
  IF s = <<>> THEN acc ELSE DigitsValue(Tail(s), 10 * acc + DigitVal[Head(s)])

(* a parse that stops at the first character that is no digit *)
int_prefix(str) ==
  LET t == Strip(str)
      n == Cardinality({i \in 1..Len(t) : \A j \in 1..i : t[j] \in DOMAIN DigitVal})
  IN  IF n = 0 THEN None ELSE Some(DigitsValue(SubSeq(t, 1, n), 0))

(* int(str): surrounding whitespace dropped, an optional sign, then digits;
   None stands for the ValueError (the "_" that Python allows between two
   digits is in none of the texts a request carries here) *)
int(str) ==
  LET t == Strip(str)
      signed == t # <<>> /\ Head(t) \in {"+", "-"}
      d == IF signed THEN Tail(t) ELSE t
  IN  IF d = <<>> \/ \E i \in 1..Len(d) : d[i] \notin DOMAIN DigitVal
        THEN None
        ELSE Some(IF signed /\ Head(t) = "-" THEN 0 - DigitsValue(d, 0)
                  ELSE DigitsValue(d, 0))

Digit(n) == CHOOSE c \in DOMAIN DigitVal : DigitVal[c] = n

RECURSIVE NatText(_)
NatText(n) == IF n < 10 THEN <<Digit(n)>> ELSE Append(NatText(n \div 10), Digit(n % 10))

(* str(float) of a value given in hundredths: 300 -> 3.0, 250 -> 2.5, 167 -> 1.67 *)
FloatText(h) ==
  LET a == IF h < 0 THEN 0 - h ELSE h
      frac == a % 100
      fracText == IF frac % 10 = 0 THEN <<Digit(frac \div 10)>>
                  ELSE <<Digit(frac \div 10), Digit(frac % 10)>>
  IN  (IF h < 0 THEN <<"-">> ELSE <<>>) \o NatText(a \div 100) \o <<".">> \o fracText

(* ------------------------------ the store ----------------------------- *)

GenreSF == <<"S", "F">>

GenreH == <<"H">>

Genres == {GenreSF, GenreH}

(* the two accounts of the test fixtures: an admin and a normal user *)
get_password_hash(password) == <<"bcrypt_sha256", password>>

User(id, username, email, password, is_admin) ==
  [id |-> id, username |-> username, email |-> email,
   hashed_password |-> get_password_hash(password),
   is_active |-> "true", is_admin |-> is_admin]

FixtureUsers ==
  { User(1, "admin", <<"admin", "@", "example.com">>, "adminpass123", TRUE),
    User(2, "testuser", <<"test", "@", "example.com">>, "testpass123", FALSE) }

(* a row of the books table; summary is the one nullable column *)
BookRow(id, title, author, genre, year_published, summary) ==
  [id |-> id, title |-> title, author |-> author, genre |-> genre,
   year_published |-> year_published, summary |-> summary]

FixtureYear == 2024

(* a book with the given genre and the other columns of the test fixture *)
Book(id, genre) ==
  BookRow(id, <<"Test Book">>, <<"Test Author">>, genre, FixtureYear,
          Some(<<"A test book">>))

Review(book_id, user_id, rating) ==
  [book_id |-> book_id, user_id |-> user_id, rating |-> rating]

SetMax(S) == CHOOSE m \in S : \A x \in S : x <= m

(* the integer primary key given to a new row *)
NextId(rows) == IF rows = {} THEN 1 ELSE SetMax({r.id : r \in rows}) + 1

BookIds(bs) == {b.id : b \in bs}

(* the review rows of one book, as the kinds of row held *)
ReviewsOf(rs, book_id) == {r \in BagToSet(rs) : r.book_id = book_id}

RECURSIVE CountIn(_, _)
CountIn(rs, S) ==
  IF S = {} THEN 0
  ELSE LET r == CHOOSE x \in S : TRUE IN CopiesIn(r, rs) + CountIn(rs, S \ {r})

RECURSIVE SumIn(_, _)
SumIn(rs, S) ==
  IF S = {} THEN 0
  ELSE LET r == CHOOSE x \in S : TRUE
       IN  r.rating * CopiesIn(r, rs) + SumIn(rs, S \ {r})

(* len(reviews) and sum(r.rating for r in reviews) over the rows of a book *)
ReviewCount(rs, book_id) == CountIn(rs, ReviewsOf(rs, book_id))

RatingSum(rs, book_id) == SumIn(rs, ReviewsOf(rs, book_id))

(* the store with the fixture accounts and an empty catalogue *)
access_token_expire_minutes == 30

InitEmpty ==
  /\ books = {}
  /\ reviews = EmptyBag

(* a catalogue larger than one page of recommendations: SeedBooks books of
   alternating genre, of which books 2..MaxReviews are each reviewed once
   with 5.0, by the admin and the normal user in turn *)
InitSeeded ==
  /\ books = {Book(i, IF i % 2 = 1 THEN GenreSF ELSE GenreH) : i \in 1..SeedBooks}
  /\ reviews = SetToBag({Review(i, 1 + (i % 2), 500) : i \in 2..MaxReviews})

Init ==
  /\ users = FixtureUsers
  /\ InitEmpty \/ InitSeeded
  /\ request = [op |-> "none"]
  /\ response = [status |-> 0]
  /\ provider_calls = 0
  /\ clock = 0
  /\ ACCESS_TOKEN_EXPIRE_MINUTES = access_token_expire_minutes
  /\ issued = {}
  /\ reg = <<>>

(* the client of the tests sends one request at a time: a handler runs when
   no request is being served *)
Idle == request.op = "none"

(* ------------------------------- auth --------------------------------- *)

(* a JSON web token: whether its signature was made with SECRET_KEY, the
   "sub" claim (None when the payload has none) and the "exp" claim *)
Jwt(signed, sub, exp) == [signed |-> signed, sub |-> sub, exp |-> exp]

(* the else branch of create_access_token *)
DefaultExpireMinutes == 15

(* Python truth of an Optional[timedelta]: None and timedelta(0) are false *)
TruthyDelta(o) == IsSome(o) /\ Val(o) # 0

create_access_token_noDefault(data, expires_delta, now) ==
  Jwt(TRUE, Some(data.sub), now + Val(expires_delta))

create_access_token(data, expires_delta, now) ==
  LET expire == IF TruthyDelta(expires_delta) THEN now + Val(expires_delta)
                ELSE now + DefaultExpireMinutes
  IN  Jwt(TRUE, Some(data.sub), expire)

(* jwt.decode(token, SECRET_KEY, algorithms=[ALGORITHM]): JWTError for a bad
   signature and for an "exp" that lies before now *)
jwt_decode_noExp(token, now) ==
  IF ~token.signed THEN [raised |-> TRUE]
  ELSE [raised |-> FALSE, payload |-> [sub |-> token.sub, exp |-> token.exp]]

jwt_decode(token, now) ==
  IF ~token.signed \/ token.exp < now THEN [raised |-> TRUE]
  ELSE [raised |-> FALSE, payload |-> [sub |-> token.sub, exp |-> token.exp]]

(* the Authorization header of a request: None when there is none, otherwise
   the bearer token; these are the tokens of the fixture accounts and of an
   account that is not stored, handed out at time 0 with the default lifetime *)
Tokens ==
  {None} \cup {Some(Jwt(TRUE, Some(u), access_token_expire_minutes)) :
                 u \in {"admin", "testuser", "ghost"}}

get_user_by_username(us, username) == {u \in us : u.username = username}

(* oauth2_scheme answers 401 when the header is missing *)
get_current_user(us, token, now) ==
  IF token = None THEN [status |-> 401]
  ELSE LET dec == jwt_decode(Val(token), now)
       IN  IF dec.raised THEN [status |-> 401]
           ELSE IF dec.payload.sub = None THEN [status |-> 401]
           ELSE IF get_user_by_username(us, Val(dec.payload.sub)) = {}
             THEN [status |-> 401]
           ELSE [status |-> 200,
                 user |-> CHOOSE u \in get_user_by_username(us, Val(dec.payload.sub)) : TRUE]

get_current_active_user(us, token, now) ==
  LET cur == get_current_user(us, token, now)
  IN  IF cur.status # 200 THEN cur
      ELSE IF cur.user.is_active # "true" THEN [status |-> 400]
      ELSE cur

(* the admin dependency without its is_admin test *)
get_current_admin_user_anyUser(us, token, now) == get_current_active_user(us, token, now)

get_current_admin_user(us, token, now) ==
  LET cur == get_current_active_user(us, token, now)
  IN  IF cur.status # 200 THEN cur
      ELSE IF ~cur.user.is_admin THEN [status |-> 403]
      ELSE cur

(* --------------------------- filling the store ------------------------ *)

RatingInputs == {0, 500, 600}

(* ReviewBase.rating: Field(..., ge=0.0, le=5.0) *)
ValidRating(rating) == 0 <= rating /\ rating <= 500

(* the select by primary key finds no row *)
book_missing_never(bs, book_id) == FALSE

book_missing(bs, book_id) == book_id \notin BookIds(bs)

YearMin == 1000

YearMax == 9999

(* the range test of year_published with the bounds left out *)
ValidYear_any(year_published) == TRUE

(* BookBase.year_published: Field(..., ge=1000, le=9999) *)
ValidYear(year_published) == YearMin <= year_published /\ year_published <= YearMax

(* POST /books *)
create_book(token, genre, year_published) ==
  LET auth == get_current_admin_user(users, token, clock)
      db_book == [Book(NextId(books), genre) EXCEPT !.year_published = year_published]
  IN  /\ Idle
      /\ UNCHANGED session
      /\ request' = [op |-> "create_book", token |-> token, genre |-> genre,
                     year_published |-> year_published]
      /\ provider_calls' = 0
      /\ IF auth.status # 200
           THEN /\ response' = [status |-> auth.status]
                /\ UNCHANGED <<users, books, reviews>>
         ELSE IF ~ValidYear(year_published)
           THEN /\ response' = [status |-> 422]
                /\ UNCHANGED <<users, books, reviews>>
           ELSE /\ Cardinality(books) < MaxBooks
                /\ books' = books \cup {db_book}
                /\ response' = [status |-> 201, body |-> db_book]
                /\ UNCHANGED <<users, reviews>>

(* the row built from a user_id of the request body when there is one *)
new_review_fromBody(book_id, current_user, rating, body_user_id) ==
  Review(book_id, IF IsSome(body_user_id) THEN Val(body_user_id) ELSE current_user.id,
         rating)

(* Review(book_id=book_id, user_id=current_user.id, rating=review.rating):
   ReviewCreate has no user_id field, a user_id of the body is not read *)
new_review(book_id, current_user, rating, body_user_id) ==
  Review(book_id, current_user.id, rating)

(* a user_id the request body may carry besides the fields of ReviewCreate *)
BodyUserIdInputs == {None, Some(1), Some(7)}

(* POST /books/{book_id}/reviews *)
create_review(token, book_id, rating, body_user_id) ==
  LET auth == get_current_active_user(users, token, clock)
      db_review == new_review(book_id, auth.user, rating, body_user_id)
  IN  /\ Idle
      /\ UNCHANGED session
      /\ request' = [op |-> "create_review", token |-> token,
                     book_id |-> book_id, rating |-> rating,
                     body_user_id |-> body_user_id]
      /\ provider_calls' = 0
      /\ IF auth.status # 200
           THEN /\ response' = [status |-> auth.status]
                /\ UNCHANGED <<users, books, reviews>>
         ELSE IF ~ValidRating(rating)
           THEN /\ response' = [status |-> 422]
                /\ UNCHANGED <<users, books, reviews>>
         ELSE IF book_missing(books, book_id)
           THEN /\ response' = [status |-> 404]
                /\ UNCHANGED <<users, books, reviews>>
         ELSE /\ BagCardinality(reviews) < MaxReviews
              /\ reviews' = reviews (+) SetToBag({db_review})
              /\ response' = [status |-> 201, body |-> db_review]
              /\ UNCHANGED <<users, books>>

(* --------------------------- GET /recommendations --------------------- *)

RecLimit == 10

(* Python truth of an Optional[str] and of an Optional[float] *)
TruthyStr(o) == IsSome(o) /\ Val(o) # <<>>

TruthyFloat(o) == IsSome(o) /\ Val(o) # 0

(* genres_list = [g.strip() for g in preferred_genres.split(",")] *)
genres_list(preferred_genres) ==
  LET parts == Split(preferred_genres)
  IN  [i \in 1..Len(parts) |-> Strip(parts[i])]

(* or_ of Book.genre.ilike(f"%{genre}%") for genre in genres_list *)
genre_conditions(b, preferred_genres) ==
  \E i \in 1..Len(genres_list(preferred_genres)) :
     ilike(b.genre, <<"%">> \o genres_list(preferred_genres)[i] \o <<"%">>)

(* Book.id.in_(select book_id from reviews group by book_id
                having avg(rating) >= min_rating) *)
rating_condition(rs, b, min_rating) ==
  /\ ReviewCount(rs, b.id) > 0
  /\ RatingSum(rs, b.id) >= min_rating * ReviewCount(rs, b.id)

(* the membership test without its negation *)
user_condition_in(rs, b, user_id_int) ==
  \E r \in BagToSet(rs) : r.user_id = user_id_int /\ r.book_id = b.id

(* ~Book.id.in_(select book_id from reviews where user_id = user_id_int) *)
user_condition(rs, b, user_id_int) ==
  ~\E r \in BagToSet(rs) : r.user_id = user_id_int /\ r.book_id = b.id

(* the conditions list the handler builds from the query parameters *)
conditions(user_id, preferred_genres, min_rating) ==
  (IF TruthyStr(preferred_genres) THEN {"genre"} ELSE {})
  \cup (IF min_rating # None THEN {"rating"} ELSE {})
  \cup (IF TruthyStr(user_id) /\ int(Val(user_id)) # None THEN {"user"} ELSE {})

Holds(c, rs, b, user_id, preferred_genres, min_rating) ==
  CASE c = "genre" -> genre_conditions(b, Val(preferred_genres))
    [] c = "rating" -> rating_condition(rs, b, Val(min_rating))
    [] c = "user" -> user_condition(rs, b, Val(int(Val(user_id))))

(* the conditions joined with or_ *)
Candidates_any(bs, rs, user_id, preferred_genres, min_rating) ==
  {b \in bs : \/ conditions(user_id, preferred_genres, min_rating) = {}
              \/ \E c \in conditions(user_id, preferred_genres, min_rating) :
                    Holds(c, rs, b, user_id, preferred_genres, min_rating)}

(* query.where(and_ of the conditions), left alone when the list is empty *)
Candidates(bs, rs, user_id, preferred_genres, min_rating) ==
  {b \in bs : \A c \in conditions(user_id, preferred_genres, min_rating) :
                 Holds(c, rs, b, user_id, preferred_genres, min_rating)}

(* coalesce(avg_rating, 0) as a fraction: the outer join gives no row, hence
   NULL, to a book without reviews *)
AvgNum(rs, b) == RatingSum(rs, b.id)

AvgDen(rs, b) == IF ReviewCount(rs, b.id) = 0 THEN 1 ELSE ReviewCount(rs, b.id)

(* the tie on the average broken by ascending id *)
OrderedBefore_idAsc(rs, a, b) ==
  LET l == AvgNum(rs, a) * AvgDen(rs, b)
      r == AvgNum(rs, b) * AvgDen(rs, a)
  IN  l > r \/ (l = r /\ a.id < b.id)

(* order_by(coalesce(avg_rating, 0).desc(), Book.id.desc()): a sorts before b *)
OrderedBefore(rs, a, b) ==
  LET l == AvgNum(rs, a) * AvgDen(rs, b)
      r == AvgNum(rs, b) * AvgDen(rs, a)
  IN  l > r \/ (l = r /\ a.id > b.id)

RECURSIVE order_by(_, _)
order_by(rs, S) ==
  IF S = {} THEN <<>>
  ELSE LET first == CHOOSE x \in S : \A y \in S \ {x} : OrderedBefore(rs, x, y)
       IN  <<first>> \o order_by(rs, S \ {first})

limit(rows, n) == SubSeq(rows, 1, IF Len(rows) < n THEN Len(rows) ELSE n)

FallbackReason == <<"Showing popular books as no specific recommendations found.">>

genre_text(preferred_genres) ==
  IF TruthyStr(preferred_genres) THEN Val(preferred_genres) ELSE <<"all genres">>

rating_text(min_rating) ==
  IF TruthyFloat(min_rating)
    THEN <<" with rating >= ">> \o FloatText(Val(min_rating))
    ELSE <<>>

PreferenceReason(preferred_genres, min_rating) ==
  <<"Recommended based on your preferences: ">>
    \o genre_text(preferred_genres) \o rating_text(min_rating)

(* a fallback that still applies the genre filter *)
Recommend_genreFallback(bs, rs, user_id, preferred_genres, min_rating) ==
  LET found == limit(order_by(rs, Candidates(bs, rs, user_id, preferred_genres,
                                             min_rating)), RecLimit)
  IN  IF found = <<>>
        THEN [status |-> 200,
              recommendations |->
                limit(order_by(rs, Candidates(bs, rs, None, preferred_genres, None)),
                      RecLimit),
              reason |-> FallbackReason]
        ELSE [status |-> 200,
              recommendations |-> found,
              reason |-> PreferenceReason(preferred_genres, min_rating)]

(* the handler's two queries and its reason string *)
Recommend(bs, rs, user_id, preferred_genres, min_rating) ==
  LET found == limit(order_by(rs, Candidates(bs, rs, user_id, preferred_genres,
                                             min_rating)), RecLimit)
  IN  IF found = <<>>
        THEN [status |-> 200,
              recommendations |-> limit(order_by(rs, bs), RecLimit),
              reason |-> FallbackReason]
        ELSE [status |-> 200,
              recommendations |-> found,
              reason |-> PreferenceReason(preferred_genres, min_rating)]

UserIdInputs == {None, Some(<<"2">>), Some(<<" ", "1">>), Some(<<"2", "x">>)}

PreferredGenresInputs ==
  {None, Some(<<>>), Some(<<"f">>), Some(<<"s", ",", " ", "h">>),
   Some(<<" ", ",", " ">>), Some(<<"x">>), Some(<<"s", "_">>)}

MinRatingInputs == {None, Some(0), Some(167)}

get_recommendations(user_id, preferred_genres, min_rating) ==
  /\ Idle
  /\ UNCHANGED session
  /\ request' = [op |-> "get_recommendations", user_id |-> user_id,
                 preferred_genres |-> preferred_genres, min_rating |-> min_rating]
  /\ response' = Recommend(books, reviews, user_id, preferred_genres, min_rating)
  /\ provider_calls' = 0
  /\ UNCHANGED <<users, books, reviews>>

(* ------------------ GET /books/{book_id}/summary ---------------------- *)

(* what the POST to the chat-completions endpoint can come to *)
ProviderOutcomes == {"ok", "network_error", "timeout", "http_error", "malformed"}

ProviderText == <<"provider summary">>

(* the bridge without its early return for an empty list *)
generate_review_summary_noguard(rows, outcome) ==
  IF outcome = "ok"
    THEN [raised |-> FALSE, value |-> ProviderText, calls |-> 1]
    ELSE [raised |-> TRUE, value |-> <<"Failed to generate review summary.">>,
          calls |-> 1]

(* the bridge sending the request a second time after a failure *)
generate_review_summary_retry(rows, outcome) ==
  IF rows = <<>>
    THEN [raised |-> FALSE, value |-> <<"No reviews available.">>, calls |-> 0]
  ELSE IF outcome = "ok"
    THEN [raised |-> FALSE, value |-> ProviderText, calls |-> 1]
  ELSE [raised |-> TRUE, value |-> <<"Failed to generate review summary.">>,
        calls |-> 2]

(* LlamaService.generate_review_summary: the value returned or the exception
   raised, and the number of requests sent to the provider *)
generate_review_summary(rows, outcome) ==
  IF rows = <<>>
    THEN [raised |-> FALSE, value |-> <<"No reviews available.">>, calls |-> 0]
  ELSE IF outcome = "ok"
    THEN [raised |-> FALSE, value |-> ProviderText, calls |-> 1]
  ELSE [raised |-> TRUE, value |-> <<"Failed to generate review summary.">>,
        calls |-> 1]

(* the third decimal cut off instead of rounded *)
round2_floor(num, den) == num \div den

(* round(x, 2) of x = num / den hundredths: the nearest hundredth, a tie
   going to the even one *)
round2(num, den) ==
  LET q == num \div den
      rem == num % den
  IN  IF 2 * rem > den \/ (2 * rem = den /\ q % 2 = 1) THEN q + 1 ELSE q

(* the rows of select(Review).where(Review.book_id == book_id), as a list *)
RECURSIVE RowsOf(_, _)
RowsOf(rs, S) ==
  IF S = {} THEN <<>>
  ELSE LET r == CHOOSE x \in S : TRUE
       IN  [i \in 1..CopiesIn(r, rs) |-> r] \o RowsOf(rs, S \ {r})

RECURSIVE SeqSum(_)
SeqSum(rows) == IF rows = <<>> THEN 0 ELSE Head(rows).rating + SeqSum(Tail(rows))

(* the handler without its try/except around the bridge *)
Summary_propagate(bs, rs, book_id, outcome) ==
  LET rows == RowsOf(rs, ReviewsOf(rs, book_id))
      reviews_data == [i \in 1..Len(rows) |-> [rating |-> rows[i].rating]]
      llm == generate_review_summary(reviews_data, outcome)
  IN  IF book_id \notin BookIds(bs)
        THEN [resp |-> [status |-> 404], calls |-> 0]
      ELSE IF llm.raised
        THEN [resp |-> [status |-> 500], calls |-> llm.calls]
      ELSE [resp |-> [status |-> 200, book_id |-> book_id,
                      average_rating |-> IF rows = <<>> THEN 0
                                         ELSE round2(SeqSum(rows), Len(rows)),
                      total_reviews |-> Len(rows),
                      review_summary |-> IF rows = <<>> THEN None ELSE Some(llm.value)],
            calls |-> llm.calls]

Summary(bs, rs, book_id, outcome) ==
  LET rows == RowsOf(rs, ReviewsOf(rs, book_id))
      reviews_data == [i \in 1..Len(rows) |-> [rating |-> rows[i].rating]]
      llm == generate_review_summary(reviews_data, outcome)
  IN  IF book_id \notin BookIds(bs)
        THEN [resp |-> [status |-> 404], calls |-> 0]
      ELSE IF rows # <<>>
        THEN [resp |-> [status |-> 200, book_id |-> book_id,
                        average_rating |-> round2(SeqSum(rows), Len(rows)),
                        total_reviews |-> Len(rows),
                        review_summary |-> IF llm.raised THEN None
                                           ELSE Some(llm.value)],
              calls |-> llm.calls]
      ELSE [resp |-> [status |-> 200, book_id |-> book_id,
                      average_rating |-> round2(0, 1),
                      total_reviews |-> Len(rows),
                      review_summary |-> None],
            calls |-> 0]

get_book_summary(book_id, outcome) ==
  /\ Idle
  /\ UNCHANGED session
  /\ request' = [op |-> "get_book_summary", book_id |-> book_id, outcome |-> outcome]
  /\ response' = Summary(books, reviews, book_id, outcome).resp
  /\ provider_calls' = Summary(books, reviews, book_id, outcome).calls
  /\ UNCHANGED <<users, books, reviews>>

(* ------------------------ POST /generate-summary ---------------------- *)

(* LlamaService.generate_summary: one POST to the provider; any exception of
   the call, of raise_for_status or of reading the payload is raised again as
   "Failed to generate book summary." *)
LlamaService_generate_summary(content, outcome) ==
  IF outcome = "ok"
    THEN [raised |-> FALSE, value |-> ProviderText, calls |-> 1]
    ELSE [raised |-> TRUE, value |-> <<"Failed to generate book summary.">>,
          calls |-> 1]

(* the endpoint answering 200 with an empty summary when the bridge raises *)
GenerateSummary_swallow(content, outcome) ==
  LET llm == LlamaService_generate_summary(Val(content), outcome)
  IN  IF content = None THEN [resp |-> [status |-> 422], calls |-> 0]
      ELSE [resp |-> [status |-> 200,
                      summary |-> IF llm.raised THEN <<>> ELSE llm.value],
            calls |-> llm.calls]

(* the endpoint: GenerateSummaryRequest.content is required; the text of the
   bridge is returned, its exception becomes a 500 *)
GenerateSummary(content, outcome) ==
  LET llm == LlamaService_generate_summary(Val(content), outcome)
  IN  IF content = None THEN [resp |-> [status |-> 422], calls |-> 0]
      ELSE IF ~llm.raised
        THEN [resp |-> [status |-> 200, summary |-> llm.value], calls |-> llm.calls]
      ELSE [resp |-> [status |-> 500,
                      detail |-> <<"Failed to generate summary: ">> \o llm.value],
            calls |-> llm.calls]

ContentInputs == {None, Some(<<"text of the book">>)}

generate_summary(content, outcome) ==
  /\ Idle
  /\ UNCHANGED session
  /\ request' = [op |-> "generate_summary", content |-> content, outcome |-> outcome]
  /\ response' = GenerateSummary(content, outcome).resp
  /\ provider_calls' = GenerateSummary(content, outcome).calls
  /\ UNCHANGED <<users, books, reviews>>

(* the review lists handed to LlamaService.generate_review_summary directly *)
ReviewListInputs == {<<>>, <<[rating |-> 500]>>, <<[rating |-> 500], [rating |-> 0]>>}

call_generate_review_summary(rows, outcome) ==
  LET llm == generate_review_summary(rows, outcome)
  IN  /\ Idle
      /\ UNCHANGED session
      /\ request' = [op |-> "generate_review_summary", reviews |-> rows,
                     outcome |-> outcome]
      /\ response' = [status |-> 0, raised |-> llm.raised, value |-> llm.value]
      /\ provider_calls' = llm.calls
      /\ UNCHANGED <<users, books, reviews>>

(* the response has been read by the client; the next request can be sent *)
complete ==
  /\ ~Idle
  /\ UNCHANGED session
  /\ request' = [op |-> "none"]
  /\ response' = [status |-> 0]
  /\ provider_calls' = 0
  /\ UNCHANGED <<users, books, reviews>>

(* ---------------------------- specification --------------------------- *)

Next ==
  \/ \E token \in Tokens, genre \in Genres : create_book(token, genre, FixtureYear)
  \/ \E token \in Tokens, book_id \in BookIds(books) \cup {NextId(books)},
        rating \in RatingInputs : create_review(token, book_id, rating, None)
  \/ \E user_id \in UserIdInputs, preferred_genres \in PreferredGenresInputs,
        min_rating \in MinRatingInputs :
        get_recommendations(user_id, preferred_genres, min_rating)
  \/ \E book_id \in BookIds(books) \cup {NextId(books)}, outcome \in ProviderOutcomes :
        get_book_summary(book_id, outcome)
  \/ \E rows \in ReviewListInputs, outcome \in ProviderOutcomes :
        call_generate_review_summary(rows, outcome)
  \/ \E content \in ContentInputs, outcome \in ProviderOutcomes :
        generate_summary(content, outcome)
  \/ complete

Spec == Init /\ [][Next]_vars

(* ------------- the catalogue under every kind of bearer token --------- *)

ShelfBooks == 2

(* the rows left by the ORM cascade of Book.reviews (all, delete-orphan) and
   by ondelete="CASCADE" of reviews.book_id *)
cascade_none(rs, book_id) == rs

cascade(rs, book_id) ==
  LET kept == {r \in BagToSet(rs) : r.book_id # book_id}
  IN  [r \in kept |-> rs[r]]

(* the handler looking the book up before the admin dependency is resolved *)
delete_book_existenceFirst(token, book_id) ==
  LET auth == get_current_admin_user(users, token, clock)
  IN  /\ Idle
      /\ UNCHANGED session
      /\ request' = [op |-> "delete_book", token |-> token, book_id |-> book_id]
      /\ provider_calls' = 0
      /\ IF book_missing(books, book_id)
           THEN /\ response' = [status |-> 404]
                /\ UNCHANGED <<users, books, reviews>>
         ELSE IF auth.status # 200
           THEN /\ response' = [status |-> auth.status]
                /\ UNCHANGED <<users, books, reviews>>
         ELSE /\ books' = {b \in books : b.id # book_id}
              /\ reviews' = cascade(reviews, book_id)
              /\ response' = [status |-> 204]
              /\ UNCHANGED users

(* GET /books/{book_id} *)
get_book(book_id) ==
  /\ Idle
  /\ UNCHANGED session
  /\ request' = [op |-> "get_book", book_id |-> book_id]
  /\ provider_calls' = 0
  /\ response' = IF book_missing(books, book_id) THEN [status |-> 404]
                 ELSE [status |-> 200,
                       body |-> CHOOSE b \in books : b.id = book_id]
  /\ UNCHANGED <<users, books, reviews>>

(* DELETE /books/{book_id} *)
delete_book(token, book_id) ==
  LET auth == get_current_admin_user(users, token, clock)
  IN  /\ Idle
      /\ UNCHANGED session
      /\ request' = [op |-> "delete_book", token |-> token, book_id |-> book_id]
      /\ provider_calls' = 0
      /\ IF auth.status # 200
           THEN /\ response' = [status |-> auth.status]
                /\ UNCHANGED <<users, books, reviews>>
         ELSE IF book_missing(books, book_id)
           THEN /\ response' = [status |-> 404]
                /\ UNCHANGED <<users, books, reviews>>
         ELSE /\ books' = {b \in books : b.id # book_id}
              /\ reviews' = cascade(reviews, book_id)
              /\ response' = [status |-> 204]
              /\ UNCHANGED users

(* GET /users/me *)
read_users_me(token) ==
  LET auth == get_current_active_user(users, token, clock)
  IN  /\ Idle
      /\ UNCHANGED session
      /\ request' = [op |-> "read_users_me", token |-> token]
      /\ provider_calls' = 0
      /\ response' = IF auth.status # 200 THEN [status |-> auth.status]
                     ELSE [status |-> 200, body |-> auth.user]
      /\ UNCHANGED <<users, books, reviews>>

(* the Authorization headers tried: none; a token not signed with SECRET_KEY;
   a signed token that has expired; a signed token without "sub"; signed,
   unexpired tokens of an account that is not stored, of the normal user and
   of the admin *)
BearerInputs ==
  { None,
    Some(Jwt(FALSE, Some("admin"), access_token_expire_minutes)),
    Some(Jwt(TRUE, Some("admin"), -1)),
    Some(Jwt(TRUE, None, access_token_expire_minutes)),
    Some(Jwt(TRUE, Some("ghost"), access_token_expire_minutes)),
    Some(Jwt(TRUE, Some("testuser"), access_token_expire_minutes)),
    Some(Jwt(TRUE, Some("admin"), access_token_expire_minutes)) }

(* a shelf of ShelfBooks books, each reviewed once with 5.0 *)
InitCatalogue ==
  /\ users = FixtureUsers
  /\ books = {Book(i, IF i % 2 = 1 THEN GenreSF ELSE GenreH) : i \in 1..ShelfBooks}
  /\ reviews = SetToBag({Review(i, 1 + (i % 2), 500) : i \in 1..ShelfBooks})
  /\ request = [op |-> "none"]
  /\ response = [status |-> 0]
  /\ provider_calls = 0
  /\ clock = 0
  /\ ACCESS_TOKEN_EXPIRE_MINUTES = access_token_expire_minutes
  /\ issued = {}
  /\ reg = <<>>

(* book ids are kept within the shelf: a new book fills a place freed below
   the highest id handed out *)
NextCatalogue ==
  \/ \E token \in BearerInputs, genre \in {GenreSF} :
        NextId(books) <= ShelfBooks /\ create_book(token, genre, FixtureYear)
  \/ \E token \in BearerInputs, book_id \in BookIds(books) \cup {NextId(books)},
        rating \in {500, 600}, body_user_id \in BodyUserIdInputs :
        create_review(token, book_id, rating, body_user_id)
  \/ \E token \in BearerInputs, book_id \in BookIds(books) \cup {NextId(books)} :
        delete_book(token, book_id)
  \/ \E token \in BearerInputs : read_users_me(token)
  \/ \E book_id \in BookIds(books) \cup {NextId(books)} : get_book(book_id)
  \/ complete

SpecCatalogue == InitCatalogue /\ [][NextCatalogue]_vars

(* ------------------------- terms of the properties -------------------- *)

Range(f) == {f[i] : i \in DOMAIN f}

Served(op) == request.op = op /\ response.status = 200

(* the mean rating of a book as total / count, a book without reviews
   counting as 0.0 *)
Total(b) == RatingSum(reviews, b.id)

Count(b) == ReviewCount(reviews, b.id)

MeanAtLeast(b, m) == IF Count(b) = 0 THEN 0 >= m ELSE Total(b) >= m * Count(b)

MeanCompare(a, b) ==
  LET l == Total(a) * (IF Count(b) = 0 THEN 1 ELSE Count(b))
      r == Total(b) * (IF Count(a) = 0 THEN 1 ELSE Count(a))
  IN  IF l > r THEN 1 ELSE IF l < r THEN -1 ELSE 0

(* a ranks before b: higher mean first, then higher id *)
RanksBefore(a, b) == MeanCompare(a, b) = 1 \/ (MeanCompare(a, b) = 0 /\ a.id > b.id)

(* recs is the first page (at most 10) of pool in ranking order *)
FirstPageOf(recs, pool) ==
  /\ Range(recs) \subseteq pool
  /\ \A i, j \in 1..Len(recs) : i < j => RanksBefore(recs[i], recs[j])
  /\ Len(recs) = (IF Cardinality(pool) < 10 THEN Cardinality(pool) ELSE 10)
  /\ \A b \in pool \ Range(recs) : \A i \in 1..Len(recs) : RanksBefore(recs[i], b)

(* the candidate set of the request being served *)
RequestCandidates ==
  Candidates(books, reviews, request.user_id, request.preferred_genres,
             request.min_rating)

IsFallback == response.reason = <<"Showing popular books as no specific recommendations found.">>

(* the user id the request names, when it parses *)
RequestUser == IF request.user_id = None THEN None ELSE int(Val(request.user_id))

ReviewedBy(u) == {b \in books : \E r \in BagToSet(reviews) : r.user_id = u /\ r.book_id = b.id}

(* ------------------------------ properties ---------------------------- *)

(* C1: the list GET /recommendations returns is sorted by mean rating
   descending (no reviews counting as 0.0), ties by id descending, and is
   exactly the first 10 entries of that ordering of the books that qualify
   (all of them when fewer than 10 qualify). *)
C1_SortedFirstTen ==
  Served("get_recommendations") =>
    FirstPageOf(response.recommendations,
                IF IsFallback THEN books ELSE RequestCandidates)

(* more than 10 books qualify, two listed books tie on a mean above 0, and a
   book whose reviews average 0.0 is listed between two unreviewed books *)
C1_Witness ==
  /\ Served("get_recommendations")
  /\ ~IsFallback
  /\ Cardinality(RequestCandidates) > 10
  /\ Len(response.recommendations) = 10
  /\ \E i, j \in 1..10 :
        /\ i < j
        /\ Count(response.recommendations[i]) > 0
        /\ Total(response.recommendations[i]) > 0
        /\ MeanCompare(response.recommendations[i], response.recommendations[j]) = 0
  /\ \E i, j, k \in 1..10 :
        /\ i < j /\ j < k
        /\ Count(response.recommendations[i]) = 0
        /\ Count(response.recommendations[j]) > 0
        /\ Count(response.recommendations[k]) = 0

(* C2 as stated: whenever user_id parses as an integer u, no book reviewed by
   u is in the returned list, whichever reason is returned. *)
C2_NeverReviewedAsStated ==
  (Served("get_recommendations") /\ RequestUser # None) =>
    Range(response.recommendations) \cap ReviewedBy(Val(RequestUser)) = {}

(* C2 amended: whenever user_id parses as an integer u and the reason returned
   is not the fallback reason, no book reviewed by u is in the returned list. *)
C2_NeverReviewedUnlessFallback ==
  (Served("get_recommendations") /\ RequestUser # None /\ ~IsFallback) =>
    Range(response.recommendations) \cap ReviewedBy(Val(RequestUser)) = {}

(* the user has reviewed a book of the catalogue and other books are returned *)
C2_Witness ==
  /\ Served("get_recommendations")
  /\ RequestUser # None
  /\ ~IsFallback
  /\ ReviewedBy(Val(RequestUser)) # {}
  /\ response.recommendations # <<>>

(* C3: the fallback reason is returned exactly when the candidate set is
   empty, and the list is then the first 10 of all books in ranking order,
   every filter ignored (an empty list for an empty catalogue). *)
C3_FallbackIffNoCandidate ==
  Served("get_recommendations") =>
    /\ IsFallback <=> RequestCandidates = {}
    /\ RequestCandidates = {} => FirstPageOf(response.recommendations, books)

(* a filter is given, nothing qualifies, and the fallback lists books *)
C3_Witness ==
  /\ Served("get_recommendations")
  /\ conditions(request.user_id, request.preferred_genres, request.min_rating) # {}
  /\ RequestCandidates = {}
  /\ IsFallback
  /\ response.recommendations # <<>>

(* a request that gives min_rating and no other filter *)
OnlyMinRating ==
  /\ Served("get_recommendations")
  /\ request.user_id = None
  /\ request.preferred_genres = None
  /\ request.min_rating # None

(* the list holds the books of pool, or is the fallback when pool is empty *)
ListsExactly(pool) ==
  IF pool = {} THEN IsFallback
  ELSE /\ ~IsFallback
       /\ Range(response.recommendations) \subseteq pool
       /\ Len(response.recommendations) =
            (IF Cardinality(pool) < 10 THEN Cardinality(pool) ELSE 10)

(* C4: with min_rating given, a book passes the rating filter iff its mean
   rating is >= min_rating, a book without reviews having mean 0.0 (so it is
   kept when min_rating <= 0). *)
C4_MinRatingKeepsMeanAtLeast ==
  OnlyMinRating =>
    ListsExactly({b \in books : MeanAtLeast(b, Val(request.min_rating))})

(* the original preferred_genres text, or "all genres" when none was given *)
GenreTextOf(preferred_genres) ==
  IF preferred_genres = None \/ Val(preferred_genres) = <<>>
    THEN <<"all genres">>
    ELSE Val(preferred_genres)

(* C5: when at least one candidate is found, the reason is the preference
   prefix, the genre text, and " with rating >= {min_rating}" if and only if
   min_rating was given, 0 included. *)
C5_ReasonNamesGivenFilters ==
  (Served("get_recommendations") /\ ~IsFallback) =>
    response.reason =
      <<"Recommended based on your preferences: ">>
        \o GenreTextOf(request.preferred_genres)
        \o (IF request.min_rating # None
              THEN <<" with rating >= ">> \o FloatText(Val(request.min_rating))
              ELSE <<>>)

(* t occurs in s as a run of consecutive characters *)
Contains(s, t) ==
  \E i \in 0..(Len(s) - Len(t)) : SubSeq(s, i + 1, i + Len(t)) = t

(* the genre contains one of the trimmed entries, letter case ignored *)
GenreContainsEntry(b, preferred_genres) ==
  \E i \in 1..Len(Split(preferred_genres)) :
     Contains(Lower(b.genre), Lower(Strip(Split(preferred_genres)[i])))

(* a request that gives a non-empty preferred_genres and no other filter *)
OnlyGenres ==
  /\ Served("get_recommendations")
  /\ request.user_id = None
  /\ request.min_rating = None
  /\ request.preferred_genres # None
  /\ Val(request.preferred_genres) # <<>>

(* C6: with a non-empty preferred_genres, a book passes the genre filter iff
   its genre contains, case-insensitively and as a substring, one of the
   comma-separated entries after trimming. *)
C6_GenreIsSubstringMatch ==
  OnlyGenres =>
    ListsExactly({b \in books : GenreContainsEntry(b, Val(request.preferred_genres))})

(* the candidate set when only one of the request's filters is given *)
GenreOnly == Candidates(books, reviews, None, request.preferred_genres, None)

RatingOnly == Candidates(books, reviews, None, None, request.min_rating)

UserOnly == Candidates(books, reviews, request.user_id, None, None)

(* C7: the books recommended are drawn from the intersection of the sets the
   given filters keep one by one; with no filter given every book is kept. *)
C7_FiltersIntersect ==
  Served("get_recommendations") =>
    /\ ListsExactly(GenreOnly \cap RatingOnly \cap UserOnly)
    /\ (request.user_id = None /\ request.preferred_genres = None
          /\ request.min_rating = None)
         => ListsExactly(books)

(* each of the three filters alone keeps a book that the other two drop *)
C7_Witness ==
  /\ Served("get_recommendations")
  /\ ~IsFallback
  /\ (RatingOnly \cap UserOnly) \ GenreOnly # {}
  /\ (GenreOnly \cap UserOnly) \ RatingOnly # {}
  /\ (GenreOnly \cap RatingOnly) \ UserOnly # {}

(* the text is an integer literal: an optional sign and one or more digits,
   white space around them allowed *)
IntegerText(s) ==
  LET t == Strip(s)
      d == IF t # <<>> /\ Head(t) \in {"+", "-"} THEN Tail(t) ELSE t
  IN  /\ d # <<>>
      /\ \A i \in 1..Len(d) : d[i] \in {"0", "1", "2", "3", "4", "5", "6", "7", "8", "9"}

(* C8: a user_id that does not parse as an integer gives the response of the
   same request with user_id omitted. *)
C8_BadUserIdIsIgnored ==
  (request.op = "get_recommendations" /\ request.user_id # None
     /\ ~IntegerText(Val(request.user_id))) =>
    response = Recommend(books, reviews, None, request.preferred_genres,
                         request.min_rating)

(* the user_id starts with the id of a user who has reviewed a book that the
   response still lists *)
C8_Witness ==
  /\ Served("get_recommendations")
  /\ request.user_id = Some(<<"2", "x">>)
  /\ ~IsFallback
  /\ ReviewedBy(2) \cap Range(response.recommendations) # {}

(* C9: the summary of an existing book reports the number of its stored
   reviews and their mean rounded to 2 decimals, 0.0 without reviews. *)
C9_SummaryAggregate ==
  \A b \in books :
    (Served("get_book_summary") /\ request.book_id = b.id) =>
      /\ response.total_reviews = Count(b)
      /\ Count(b) = 0 => response.average_rating = 0
      /\ Count(b) > 0 =>
           /\ 2 * (Total(b) - Count(b) * response.average_rating) <= Count(b)
           /\ 2 * (Count(b) * response.average_rating - Total(b)) <= Count(b)

(* a book whose mean is no whole number of hundredths, rounded up *)
C9_Witness ==
  \E b \in books :
    /\ Served("get_book_summary")
    /\ request.book_id = b.id
    /\ Count(b) = 3
    /\ Total(b) % Count(b) # 0
    /\ Count(b) * response.average_rating > Total(b)

(* C10: the summary of a book without reviews is average 0.0, 0 reviews and
   no review summary, with no call to the provider; the bridge given an empty
   list returns "No reviews available." with no call to the provider. *)
C10_NoReviewsNoProviderCall ==
  /\ \A b \in books :
       (Served("get_book_summary") /\ request.book_id = b.id /\ Count(b) = 0) =>
         /\ response.average_rating = 0
         /\ response.total_reviews = 0
         /\ response.review_summary = None
         /\ provider_calls = 0
  /\ (request.op = "generate_review_summary" /\ request.reviews = <<>>) =>
         /\ ~response.raised
         /\ response.value = <<"No reviews available.">>
         /\ provider_calls = 0

(* an unreviewed book is summarised while the provider is down *)
C10_Witness ==
  \E b \in books :
    /\ Served("get_book_summary")
    /\ request.book_id = b.id
    /\ request.outcome = "network_error"
    /\ Count(b) = 0
    /\ response.review_summary = None

(* C11: when the provider fails while GET /books/{id}/summary is served for a
   stored book that has reviews, the answer is still 200 with review_summary
   null and with the average_rating and total_reviews that the same request
   gets when the provider succeeds. *)
C11_ProviderFailureKeepsAggregate ==
  \A b \in books :
    (request.op = "get_book_summary" /\ request.book_id = b.id
       /\ request.outcome # "ok" /\ Count(b) > 0) =>
      /\ response.status = 200
      /\ response.review_summary = None
      /\ provider_calls = 1
      /\ LET ok == Summary(books, reviews, b.id, "ok").resp
         IN  /\ ok.review_summary # None
             /\ response.average_rating = ok.average_rating
             /\ response.total_reviews = ok.total_reviews

(* a reviewed book is summarised while the provider times out *)
C11_Witness ==
  \E b \in books :
    /\ Served("get_book_summary")
    /\ request.book_id = b.id
    /\ request.outcome = "timeout"
    /\ Count(b) = 2
    /\ response.review_summary = None
    /\ response.average_rating > 0

(* C12: when the provider fails while POST /generate-summary is served, the
   answer is 500 with the error in its detail, never 200; a 200 answer carries
   the text the provider returned. *)
C12_GenerateSummaryFailsLoudly ==
  (request.op = "generate_summary" /\ request.content # None) =>
    /\ request.outcome # "ok" =>
         /\ response.status = 500
         /\ response.detail =
              <<"Failed to generate summary: ", "Failed to generate book summary.">>
    /\ request.outcome = "ok" => response.status = 200
    /\ response.status = 200 => response.summary = ProviderText

(* the provider answers with a non-success status *)
C12_Witness ==
  /\ request.op = "generate_summary"
  /\ request.content # None
  /\ request.outcome = "http_error"
  /\ response.status = 500
  /\ provider_calls = 1

(* ------------------------ PUT /books/{book_id} ------------------------ *)

BookFields == {"title", "author", "genre", "year_published", "summary"}

(* Column(..., nullable=False) of the books table *)
RequiredFields == {"title", "author", "genre", "year_published"}

(* a parsed BookUpdate: the value of every field, None for a JSON null and
   for a field the body does not name, and the set of fields the body names *)
BookUpdate(fields_set, given) ==
  [values |-> [f \in BookFields |-> IF f \in fields_set THEN given[f] ELSE None],
   fields_set |-> fields_set]

(* model_dump() without exclude_unset: every field, the defaults included *)
model_dump_all(book_update) == book_update.values

(* model_dump(exclude_none=True): the fields whose value is not None *)
model_dump_exclude_none(book_update) ==
  [f \in {g \in BookFields : book_update.values[g] # None} |-> book_update.values[f]]

(* model_dump(exclude_unset=True): the fields the body names, nulls included *)
model_dump(book_update) ==
  [f \in book_update.fields_set |-> book_update.values[f]]

(* BookUpdate.year_published: Optional[int] = Field(None, ge=1000, le=9999) *)
ValidBookUpdate(book_update) ==
  book_update.values["year_published"] # None =>
    ValidYear(Val(book_update.values["year_published"]))

(* the commit writes NULL into a column declared nullable=False *)
not_null_violation(update_data) ==
  \E f \in DOMAIN update_data \cap RequiredFields : update_data[f] = None

(* setattr(book, field, value) for every item of update_data *)
setattrs(book, update_data) ==
  [f \in DOMAIN book |->
     IF f \notin DOMAIN update_data THEN book[f]
     ELSE IF f = "summary" THEN update_data[f]
     ELSE Val(update_data[f])]

(* update_book: the answer and the books table afterwards *)
Update(bs, book_id, book_update) ==
  LET book == CHOOSE b \in bs : b.id = book_id
      update_data == model_dump(book_update)
      updated == setattrs(book, update_data)
  IN  IF ~ValidBookUpdate(book_update)
        THEN [resp |-> [status |-> 422], books |-> bs]
      ELSE IF book_missing(bs, book_id)
        THEN [resp |-> [status |-> 404], books |-> bs]
      ELSE IF not_null_violation(update_data)
        THEN [resp |-> [status |-> 500], books |-> bs]
      ELSE [resp |-> [status |-> 200, body |-> updated],
            books |-> (bs \ {book}) \cup {updated}]

update_book(book_id, book_update) ==
  /\ Idle
  /\ UNCHANGED session
  /\ request' = [op |-> "update_book", book_id |-> book_id,
                 book_update |-> book_update]
  /\ provider_calls' = 0
  /\ response' = Update(books, book_id, book_update).resp
  /\ books' = Update(books, book_id, book_update).books
  /\ UNCHANGED <<users, reviews>>

(* what a body can carry for a field: nothing, null, or a value *)
Unset == [present |-> FALSE, value |-> None]

Given(v) == [present |-> TRUE, value |-> v]

TextInputs == {Unset, Given(None), Given(Some(<<"New">>))}

YearInputs ==
  {Unset, Given(None), Given(Some(YearMin - 1)), Given(Some(YearMin)),
   Given(Some(YearMax)), Given(Some(YearMax + 1))}

SummaryInputs == {Unset, Given(None), Given(Some(<<"New summary">>))}

BookUpdateOf(title, author, genre, year_published, summary) ==
  LET body == [title |-> title, author |-> author, genre |-> genre,
               year_published |-> year_published, summary |-> summary]
  IN  BookUpdate({f \in BookFields : body[f].present},
                 [f \in BookFields |-> body[f].value])

BookUpdateInputs ==
  {BookUpdateOf(title, author, genre, year_published, summary) :
     title \in TextInputs, author \in TextInputs, genre \in TextInputs,
     year_published \in YearInputs, summary \in SummaryInputs}

(* book 1 of the shelf is updated, the other books are not *)
NextUpdate ==
  \/ \E book_id \in {1, NextId(books)}, book_update \in BookUpdateInputs :
        update_book(book_id, book_update)
  \/ \E book_id \in BookIds(books) : get_book(book_id)
  \/ complete

SpecUpdate == InitCatalogue /\ [][NextUpdate]_vars

(* ------------- years and ratings at the edges of their ranges --------- *)

(* no token, the token of the normal user, the token of the admin *)
user_token == Some(Jwt(TRUE, Some("testuser"), access_token_expire_minutes))

admin_token == Some(Jwt(TRUE, Some("admin"), access_token_expire_minutes))

CallerInputs == {None, user_token, admin_token}

(* year_published just outside and at the ends of ge=1000, le=9999 *)
YearEdges == {YearMin - 1, YearMin, YearMax, YearMax + 1}

(* rating just outside and at the ends of ge=0.0, le=5.0: -0.01, 0.0, 5.0, 5.01 *)
RatingEdges == {-1, 0, 500, 501}

(* a body that names year_published only *)
YearOnlyInputs ==
  {BookUpdateOf(Unset, Unset, Unset, year_published, Unset) :
     year_published \in YearInputs}

InitRanges ==
  /\ users = FixtureUsers
  /\ InitEmpty
  /\ request = [op |-> "none"]
  /\ response = [status |-> 0]
  /\ provider_calls = 0
  /\ clock = 0
  /\ ACCESS_TOKEN_EXPIRE_MINUTES = access_token_expire_minutes
  /\ issued = {}
  /\ reg = <<>>

NextRanges ==
  \/ \E token \in CallerInputs, year_published \in YearEdges :
        create_book(token, GenreSF, year_published)
  \/ \E book_id \in BookIds(books) \cup {NextId(books)},
        book_update \in YearOnlyInputs :
        update_book(book_id, book_update)
  \/ \E token \in {None, user_token},
        book_id \in BookIds(books) \cup {NextId(books)}, rating \in RatingEdges :
        create_review(token, book_id, rating, None)
  \/ complete

SpecRanges == InitRanges /\ [][NextRanges]_vars

(* ------------------------- POST /register ----------------------------- *)

(* UserBase.email: EmailStr, an address is a local part, "@" and a domain *)
IsEmail(email) ==
  /\ Len(email) = 3
  /\ email[2] = "@"
  /\ email[1] # "@" /\ email[3] # "@"

(* select(User).where(User.username == ...) and (User.email == ...) *)
username_taken(us, username) == \E u \in us : u.username = username

email_taken(us, email) == \E u \in us : u.email = email

(* a table without unique=True on username and email *)
unique_violation_none(us, row) == FALSE

(* users.username and users.email are unique=True: the insert of a row that
   repeats either fails with IntegrityError at commit *)
unique_violation(us, row) ==
  \E u \in us : u.username = row.username \/ u.email = row.email

(* the handler answering 201 without its two lookups *)
Register_noLookup(us, body) ==
  LET db_user == User(NextId(us), body.username, body.email, body.password,
                      body.is_admin)
  IN  IF ~IsEmail(body.email)
        THEN [resp |-> [status |-> 422], users |-> us]
      ELSE IF unique_violation(us, db_user)
        THEN [resp |-> [status |-> 500], users |-> us]
      ELSE [resp |-> [status |-> 201, body |-> db_user], users |-> us \cup {db_user}]

(* register, run without another request in between: the answer and the
   users table afterwards *)
Register(us, body) ==
  LET db_user == User(NextId(us), body.username, body.email, body.password,
                      body.is_admin)
  IN  IF ~IsEmail(body.email)
        THEN [resp |-> [status |-> 422], users |-> us]
      ELSE IF username_taken(us, body.username)
        THEN [resp |-> [status |-> 400, detail |-> "Username already registered"],
              users |-> us]
      ELSE IF email_taken(us, body.email)
        THEN [resp |-> [status |-> 400, detail |-> "Email already registered"],
              users |-> us]
      ELSE IF unique_violation(us, db_user)
        THEN [resp |-> [status |-> 500], users |-> us]
      ELSE [resp |-> [status |-> 201, body |-> db_user], users |-> us \cup {db_user}]

UsernameInputs == {"alice", "bob"}

EmailInputs == {<<"a", "@", "x.io">>, <<"b", "@", "x.io">>, <<"a", "x.io">>}

UserCreate(username, email, password, is_admin) ==
  [username |-> username, email |-> email, password |-> password,
   is_admin |-> is_admin]

UserCreateInputs ==
  {UserCreate(n, m, "secret", a) : n \in UsernameInputs, m \in EmailInputs,
                                   a \in BOOLEAN}

register(body) ==
  /\ Idle
  /\ UNCHANGED session
  /\ request' = [op |-> "register", body |-> body]
  /\ provider_calls' = 0
  /\ response' = Register(users, body).resp
  /\ users' = Register(users, body).users
  /\ UNCHANGED <<books, reviews>>

(* the service after startup: no account, no book *)
InitRegister ==
  /\ users = {}
  /\ books = {}
  /\ reviews = EmptyBag
  /\ request = [op |-> "none"]
  /\ response = [status |-> 0]
  /\ provider_calls = 0
  /\ clock = 0
  /\ ACCESS_TOKEN_EXPIRE_MINUTES = access_token_expire_minutes
  /\ issued = {}
  /\ reg = <<>>

NextRegister ==
  \/ \E body \in UserCreateInputs : register(body)
  \/ complete

SpecRegister == InitRegister /\ [][NextRegister]_vars

(* ------------------ POST /register, requests in parallel -------------- *)

NProcs == 2

Procs == 1..NProcs

catalogue == <<books, reviews, request, response, provider_calls,
               clock, ACCESS_TOKEN_EXPIRE_MINUTES, issued>>

At(p, pc) == reg[p].pc = pc

Goto(p, pc, status) == reg' = [reg EXCEPT ![p] = [pc |-> pc, body |-> reg[p].body,
                                                   status |-> status]]

(* the request arrives and its body is validated *)
register_begin(p, body) ==
  /\ At(p, "idle")
  /\ reg' = [reg EXCEPT ![p] =
              IF IsEmail(body.email)
                THEN [pc |-> "check_username", body |-> body, status |-> 0]
                ELSE [pc |-> "done", body |-> body, status |-> 422]]
  /\ UNCHANGED <<users, catalogue>>

(* the first await: the lookup by username *)
register_check_username(p) ==
  /\ At(p, "check_username")
  /\ IF username_taken(users, reg[p].body.username)
       THEN Goto(p, "done", 400)
       ELSE Goto(p, "check_email", 0)
  /\ UNCHANGED <<users, catalogue>>

(* the second await: the lookup by email *)
register_check_email(p) ==
  /\ At(p, "check_email")
  /\ IF email_taken(users, reg[p].body.email)
       THEN Goto(p, "done", 400)
       ELSE Goto(p, "commit", 0)
  /\ UNCHANGED <<users, catalogue>>

(* db.add and the third await, the commit: the row is inserted unless the
   table's unique constraints refuse it *)
register_commit(p) ==
  LET body == reg[p].body
      db_user == User(NextId(users), body.username, body.email, body.password,
                      body.is_admin)
  IN  /\ At(p, "commit")
      /\ IF unique_violation(users, db_user)
           THEN Goto(p, "done", 500) /\ UNCHANGED users
           ELSE Goto(p, "done", 201) /\ users' = users \cup {db_user}
      /\ UNCHANGED catalogue

(* the answer is sent; the connection can carry the next request *)
register_return(p) ==
  /\ At(p, "done")
  /\ reg' = [reg EXCEPT ![p] = [pc |-> "idle"]]
  /\ UNCHANGED <<users, catalogue>>

RaceInputs ==
  {UserCreate(n, m, "secret", FALSE) :
     n \in UsernameInputs, m \in EmailInputs}

InitRace ==
  /\ users = {}
  /\ books = {}
  /\ reviews = EmptyBag
  /\ request = [op |-> "none"]
  /\ response = [status |-> 0]
  /\ provider_calls = 0
  /\ clock = 0
  /\ ACCESS_TOKEN_EXPIRE_MINUTES = access_token_expire_minutes
  /\ issued = {}
  /\ reg = [p \in Procs |-> [pc |-> "idle"]]

NextRace ==
  \/ \E p \in Procs, body \in RaceInputs : register_begin(p, body)
  \/ \E p \in Procs : register_check_username(p)
  \/ \E p \in Procs : register_check_email(p)
  \/ \E p \in Procs : register_commit(p)
  \/ \E p \in Procs : register_return(p)

SpecRace == InitRace /\ [][NextRace]_vars

(* ------- POST /books/{id}/reviews and DELETE /books/{id} in parallel --- *)

(* the storage engine checks the constraints the tables declare *)
constraints_enforced == TRUE

(* an insert into reviews that no table constraint refuses *)
fk_violation_none(bs, us, row) == FALSE

(* reviews.book_id is ForeignKey("books.id"), reviews.user_id is
   ForeignKey("users.id"): the insert of a row that names no stored book or
   no stored user is refused *)
fk_violation(bs, us, row) ==
  /\ constraints_enforced
  /\ \/ row.book_id \notin BookIds(bs)
     \/ row.user_id \notin {u.id : u \in us}

(* the position of request p changes, its other fields stay *)
Advance(p, pc, status) ==
  reg' = [reg EXCEPT ![p] = [reg[p] EXCEPT !.pc = pc, !.status = status]]

(* reviews being written by requests that are past their body validation *)
InFlightReviews ==
  Cardinality({q \in Procs : reg[q].pc \in {"review_select_book", "review_commit"}})

(* create_review: the dependencies are resolved and the body is validated *)
create_review_begin(p, token, book_id, rating) ==
  LET auth == get_current_active_user(users, token, clock)
  IN  /\ At(p, "idle")
      /\ BagCardinality(reviews) + InFlightReviews < MaxReviews
      /\ reg' = [reg EXCEPT ![p] =
                  IF auth.status # 200
                    THEN [pc |-> "done", op |-> "create_review", book_id |-> book_id,
                          row |-> None, loaded |-> EmptyBag, status |-> auth.status]
                  ELSE IF ~ValidRating(rating)
                    THEN [pc |-> "done", op |-> "create_review", book_id |-> book_id,
                          row |-> None, loaded |-> EmptyBag, status |-> 422]
                  ELSE [pc |-> "review_select_book", op |-> "create_review",
                        book_id |-> book_id,
                        row |-> Some(new_review(book_id, auth.user, rating, None)),
                        loaded |-> EmptyBag, status |-> 0]]
      /\ UNCHANGED <<users, catalogue>>

(* create_review: the select of the book *)
create_review_select_book(p) ==
  /\ At(p, "review_select_book")
  /\ IF book_missing(books, reg[p].book_id)
       THEN Advance(p, "done", 404)
       ELSE Advance(p, "review_commit", 0)
  /\ UNCHANGED <<users, catalogue>>

(* create_review: db.add and the commit, which inserts the row unless a
   foreign key refuses it (IntegrityError, answered 500) *)
create_review_commit(p) ==
  /\ At(p, "review_commit")
  /\ IF fk_violation(books, users, Val(reg[p].row))
       THEN /\ Advance(p, "done", 500)
            /\ UNCHANGED reviews
       ELSE /\ reviews' = reviews (+) SetToBag({Val(reg[p].row)})
            /\ Advance(p, "done", 201)
  /\ UNCHANGED <<users, books, request, response, provider_calls, clock, ACCESS_TOKEN_EXPIRE_MINUTES, issued>>

(* delete_book: the admin dependency is resolved *)
delete_book_begin(p, token, book_id) ==
  LET auth == get_current_admin_user(users, token, clock)
  IN  /\ At(p, "idle")
      /\ reg' = [reg EXCEPT ![p] =
                  [pc |-> IF auth.status # 200 THEN "done" ELSE "delete_select_book",
                   op |-> "delete_book", book_id |-> book_id, row |-> None,
                   loaded |-> EmptyBag,
                   status |-> IF auth.status # 200 THEN auth.status ELSE 0]]
      /\ UNCHANGED <<users, catalogue>>

(* delete_book: the select of the book *)
delete_book_select_book(p) ==
  /\ At(p, "delete_select_book")
  /\ IF book_missing(books, reg[p].book_id)
       THEN Advance(p, "done", 404)
       ELSE Advance(p, "delete_load_reviews", 0)
  /\ UNCHANGED <<users, catalogue>>

(* delete_book: db.delete(book) loads book.reviews, the rows the ORM cascade
   will delete *)
delete_book_load_reviews(p) ==
  /\ At(p, "delete_load_reviews")
  /\ reg' = [reg EXCEPT ![p] =
              [reg[p] EXCEPT !.pc = "delete_commit",
                             !.loaded = reviews (-) cascade(reviews, reg[p].book_id)]]
  /\ UNCHANGED <<users, catalogue>>

(* delete_book: the commit deletes the loaded reviews and the book; the
   reviews of the book committed since the load go with the row of the book
   by ondelete="CASCADE", or stay when the engine does not enforce it. A book
   that another request deleted in between makes the flush fail (500). *)
delete_book_commit(p) ==
  /\ At(p, "delete_commit")
  /\ IF book_missing(books, reg[p].book_id)
       THEN /\ Advance(p, "done", 500)
            /\ UNCHANGED <<books, reviews>>
       ELSE /\ books' = {b \in books : b.id # reg[p].book_id}
            /\ reviews' = IF constraints_enforced
                            THEN cascade(reviews (-) reg[p].loaded, reg[p].book_id)
                            ELSE reviews (-) reg[p].loaded
            /\ Advance(p, "done", 204)
  /\ UNCHANGED <<users, request, response, provider_calls, clock, ACCESS_TOKEN_EXPIRE_MINUTES, issued>>

(* the response is sent *)
request_return(p) ==
  /\ At(p, "done")
  /\ reg' = [reg EXCEPT ![p] = [pc |-> "idle"]]
  /\ UNCHANGED <<users, catalogue>>

InitReviewRace ==
  /\ users = FixtureUsers
  /\ books = {Book(i, GenreSF) : i \in 1..ShelfBooks}
  /\ reviews = EmptyBag
  /\ request = [op |-> "none"]
  /\ response = [status |-> 0]
  /\ provider_calls = 0
  /\ clock = 0
  /\ ACCESS_TOKEN_EXPIRE_MINUTES = access_token_expire_minutes
  /\ issued = {}
  /\ reg = [p \in Procs |-> [pc |-> "idle"]]

(* the requests in flight are for book 1: reviews of it by the normal user
   or without a token, deletes of it by the admin or by the normal user *)
NextReviewRace ==
  \/ \E p \in Procs, token \in {None, user_token} :
        create_review_begin(p, token, 1, 500)
  \/ \E p \in Procs : create_review_select_book(p)
  \/ \E p \in Procs : create_review_commit(p)
  \/ \E p \in Procs, token \in {user_token, admin_token} :
        delete_book_begin(p, token, 1)
  \/ \E p \in Procs : delete_book_select_book(p)
  \/ \E p \in Procs : delete_book_load_reviews(p)
  \/ \E p \in Procs : delete_book_commit(p)
  \/ \E p \in Procs : request_return(p)

SpecReviewRace == InitReviewRace /\ [][NextReviewRace]_vars

(* ----------------------------- POST /login --------------------------- *)

MaxClock == 3

(* the values of settings.access_token_expire_minutes tried *)
ExpireInputs == {0, 1, access_token_expire_minutes}

verify_password(plain_password, hashed_password) ==
  get_password_hash(plain_password) = hashed_password

(* the user, or None for an unknown username or a wrong password *)
authenticate_user(us, username, password) ==
  LET found == get_user_by_username(us, username)
      user == CHOOSE u \in found : TRUE
  IN  IF found = {} THEN None
      ELSE IF ~verify_password(password, user.hashed_password) THEN None
      ELSE Some(user)

(* the answer of POST /login at the time now *)
Login(us, username, password, now, minutes) ==
  LET user == authenticate_user(us, username, password)
  IN  IF user = None THEN [status |-> 401]
      ELSE [status |-> 200,
            access_token |-> create_access_token([sub |-> Val(user).username],
                                                 Some(minutes), now),
            token_type |-> "bearer"]

login(username, password) ==
  LET resp == Login(users, username, password, clock, ACCESS_TOKEN_EXPIRE_MINUTES)
  IN  /\ Idle
      /\ request' = [op |-> "login", username |-> username, password |-> password]
      /\ response' = resp
      /\ provider_calls' = 0
      /\ issued' = IF resp.status = 200 THEN issued \cup {resp.access_token} ELSE issued
      /\ UNCHANGED <<users, books, reviews, clock, ACCESS_TOKEN_EXPIRE_MINUTES, reg>>

(* a minute passes between two requests *)
tick ==
  /\ Idle
  /\ clock < MaxClock
  /\ clock' = clock + 1
  /\ UNCHANGED <<users, books, reviews, request, response, provider_calls,
                 ACCESS_TOKEN_EXPIRE_MINUTES, issued, reg>>

(* the fixture accounts, no book, and a token lifetime read from the settings
   when the service starts *)
InitToken ==
  /\ users = FixtureUsers
  /\ books = {}
  /\ reviews = EmptyBag
  /\ request = [op |-> "none"]
  /\ response = [status |-> 0]
  /\ provider_calls = 0
  /\ clock = 0
  /\ ACCESS_TOKEN_EXPIRE_MINUTES \in ExpireInputs
  /\ issued = {}
  /\ reg = <<>>

NextToken ==
  \/ \E username \in {"testuser", "ghost"}, password \in {"testpass123", "wrong"} :
        login(username, password)
  \/ \E token \in {None} \cup {Some(t) : t \in issued} : read_users_me(token)
  \/ tick
  \/ complete

SpecToken == InitToken /\ [][NextToken]_vars

(* ----------------- terms of the properties on tokens ------------------ *)

(* the header carries a token signed with the key, not expired, whose subject
   is the username of a stored user *)
TokenGood(token) ==
  /\ token # None
  /\ Val(token).signed
  /\ Val(token).exp >= clock
  /\ Val(token).sub # None
  /\ \E u \in users : u.username = Val(Val(token).sub)

Caller(token) == CHOOSE u \in users : u.username = Val(Val(token).sub)

StoreUnchanged == UNCHANGED <<users, books, reviews>>

AuthOps == {"read_users_me", "create_book", "delete_book", "create_review"}

(* C13: a step adds a review only as POST /books/{id}/reviews does, and the
   row added has the path id as book_id and the id of the user the token
   resolves to as user_id, whatever user_id the body carries; every other
   step leaves the review rows as they are or removes some. *)
C13_ReviewBoundToCaller ==
  [][ \/ reviews' \sqsubseteq reviews
      \/ /\ request'.op = "create_review"
         /\ TokenGood(request'.token)
         /\ reviews' = reviews (+) SetToBag({Review(request'.book_id,
                                                   Caller(request'.token).id,
                                                   request'.rating)}) ]_vars

(* the normal user (id 2) posts a review whose body names user 1 *)
C13_Witness ==
  /\ request.op = "create_review"
  /\ response.status = 201
  /\ request.body_user_id = Some(1)
  /\ Caller(request.token).id = 2
  /\ response.body.user_id = 2
  /\ response.body \in BagToSet(reviews)

(* C14: a DELETE /books/{id} answered 204 removes that book and every review
   of it, and leaves every other book, the reviews of other books and the
   users as they were. *)
C14_DeleteCascades ==
  [][ (Idle /\ request'.op = "delete_book" /\ response'.status = 204) =>
        /\ request'.book_id \in BookIds(books)
        /\ books' = {b \in books : b.id # request'.book_id}
        /\ \A r \in BagToSet(reviews) \cup BagToSet(reviews') :
             CopiesIn(r, reviews') =
               (IF r.book_id = request'.book_id THEN 0 ELSE CopiesIn(r, reviews))
        /\ users' = users ]_vars

(* book 1 and its review are gone, book 2 and its review are still there *)
C14_Witness ==
  /\ request.op = "delete_book"
  /\ response.status = 204
  /\ request.book_id = 1
  /\ BookIds(books) = {2}
  /\ BagToSet(reviews) = {Review(2, 1, 500)}

(* C15: POST /books and DELETE /books/{id} answer 401 without a valid token
   and 403 with the valid token of a user who is no admin, changing nothing
   in both cases; they change the store only for the token of an admin. *)
C15_AdminOnlyWrites ==
  [][ (Idle /\ request'.op \in {"create_book", "delete_book"}) =>
        /\ ~TokenGood(request'.token) =>
             (response'.status = 401 /\ StoreUnchanged)
        /\ (TokenGood(request'.token) /\ ~Caller(request'.token).is_admin) =>
             (response'.status = 403 /\ StoreUnchanged)
        /\ ~StoreUnchanged =>
             (TokenGood(request'.token) /\ Caller(request'.token).is_admin) ]_vars

(* the normal user asks to delete a stored book *)
C15_Witness ==
  /\ request.op = "delete_book"
  /\ request.book_id \in BookIds(books)
  /\ TokenGood(request.token)
  /\ ~Caller(request.token).is_admin
  /\ response.status = 403

(* C18: GET /users/me, POST /books, DELETE /books/{id} and POST
   /books/{id}/reviews answer 401 and leave the store unchanged when the token
   is missing, cannot be verified, has no subject or names no stored user;
   a token that is accepted resolves to the stored user named by its subject. *)
C18_BadTokenIs401 ==
  /\ [][ (Idle /\ request'.op \in AuthOps /\ ~TokenGood(request'.token)) =>
           (response'.status = 401 /\ StoreUnchanged) ]_vars
  /\ []((request.op = "read_users_me" /\ response.status = 200) =>
           /\ response.body \in users
           /\ response.body.username = Val(Val(request.token).sub))

(* a signed token that has expired is refused by POST /books/{id}/reviews *)
C18_Witness ==
  /\ request.op = "create_review"
  /\ request.token # None
  /\ Val(request.token).signed
  /\ Val(request.token).exp < clock
  /\ request.book_id \in BookIds(books)
  /\ response.status = 401

(* the rating of the body passes ReviewBase *)
BodyValid == 0 <= request'.rating /\ request'.rating <= 500

(* C20 as stated: POST /books/{id}/reviews by an authenticated caller for a
   book id that is not stored is answered 404. *)
C20_MissingBookIs404 ==
  (request.op = "create_review" /\ TokenGood(request.token)
     /\ request.book_id \notin BookIds(books)) => response.status = 404

(* C20: POST /books/{id}/reviews by an authenticated caller for a book id that
   is not stored is answered 404 when the body passes validation and 422 when
   it does not, and stores no review; a review is stored only for a book that
   is stored when the request is served. *)
C20_MissingBookStoresNothing ==
  [][ (Idle /\ request'.op = "create_review") =>
        /\ (TokenGood(request'.token) /\ request'.book_id \notin BookIds(books)) =>
             /\ response'.status = (IF BodyValid THEN 404 ELSE 422)
             /\ StoreUnchanged
        /\ reviews' # reviews => request'.book_id \in BookIds(books) ]_vars

(* the normal user reviews a book id that is not stored *)
C20_Witness ==
  /\ request.op = "create_review"
  /\ TokenGood(request.token)
  /\ request.book_id \notin BookIds(books)
  /\ request.rating = 500
  /\ response.status = 404

(* C16 as stated: POST /register with a username or an email that a stored
   user has is answered 400 and changes no user; every other POST /register is
   answered 201 and adds exactly one user with that username and email. *)
C16_DuplicateIs400 ==
  [][ (Idle /\ request'.op = "register") =>
        LET body == request'.body
            taken == \E u \in users : u.username = body.username \/ u.email = body.email
        IN  IF taken THEN response'.status = 400 /\ users' = users
            ELSE /\ response'.status = 201
                 /\ \E u \in users' \ users :
                      /\ users' = users \cup {u}
                      /\ u.username = body.username
                      /\ u.email = body.email ]_vars

(* the body carries an address with exactly one "@" between two parts *)
WellFormed(body) == \E l, d \in {"a", "b", "x.io"} : body.email = <<l, "@", d>>

(* C16: POST /register with a body that fails validation is answered 422 and
   changes no user; with a valid body and a username or an email that a stored
   user has it is answered 400 and changes no user; with any other valid body
   it is answered 201 and adds exactly one user with that username and email. *)
C16_DuplicateIs400WhenBodyValid ==
  [][ (Idle /\ request'.op = "register") =>
        LET body == request'.body
            taken == \E u \in users : u.username = body.username \/ u.email = body.email
        IN  IF ~WellFormed(body) THEN response'.status = 422 /\ users' = users
            ELSE IF taken THEN response'.status = 400 /\ users' = users
            ELSE /\ response'.status = 201
                 /\ \E u \in users' \ users :
                      /\ users' = users \cup {u}
                      /\ u.username = body.username
                      /\ u.email = body.email ]_vars

(* a new username with the email of a stored user is refused *)
C16_Witness ==
  /\ request.op = "register"
  /\ response.status = 400
  /\ \E u \in users : u.email = request.body.email /\ u.username # request.body.username
  /\ ~\E u \in users : u.username = request.body.username

(* C17: whatever the interleaving of POST /register requests running
   in parallel, no two stored users have the same username or the same email:
   of the inserts that passed their lookups the unique constraints of the
   table let only one commit. *)
C17_UsersStayUnique ==
  \A u, v \in users :
    u # v => (u.username # v.username /\ u.email # v.email /\ u.id # v.id)

(* two requests for one username both passed their lookups: the first insert
   committed, the second was refused by the table *)
C17_Witness ==
  /\ At(1, "done") /\ reg[1].status = 201
  /\ At(2, "done") /\ reg[2].status = 500
  /\ reg[1].body.username = reg[2].body.username
  /\ Cardinality(users) = 1

(* C19: the token given by POST /login has the username as its subject and
   the time of issue plus the configured access_token_expire_minutes as its
   expiry, for every configured value; a request bearing a token that was
   issued is accepted at any time before that expiry and answered 401 at any
   time after it. *)
C19_TokenExpiry ==
  /\ (request.op = "login" /\ response.status = 200) =>
       /\ response.access_token.sub = Some(request.username)
       /\ response.access_token.exp = clock + ACCESS_TOKEN_EXPIRE_MINUTES
  /\ (request.op = "read_users_me" /\ request.token # None) =>
       /\ clock < Val(request.token).exp => response.status = 200
       /\ clock > Val(request.token).exp => response.status = 401

(* the average_rating that GET /books/{id}/summary reports for a book *)
ReportedAverage(b) == Summary(books, reviews, b.id, "ok").resp.average_rating

(* C24: the min-rating filter of GET /recommendations works on the average
   that GET /books/{id}/summary reports (the mean rounded to 2 decimals): a
   book passes the filter iff its reported average_rating >= min_rating. *)
C24_FilterUsesReportedAverage ==
  OnlyMinRating =>
    ListsExactly({b \in books : ReportedAverage(b) >= Val(request.min_rating)})

(* C25: a GET /books/{id}/summary or POST /generate-summary request sends at
   most one request to the provider; when that one fails or times out no
   second one is sent and the request is answered at once, 200 without review
   summary or 500. *)
C25_AtMostOneProviderCall ==
  request.op \in {"get_book_summary", "generate_summary"} =>
    /\ provider_calls <= 1
    /\ response.status # 0
    /\ (request.outcome # "ok" /\ provider_calls > 0) =>
         /\ provider_calls = 1
         /\ request.op = "get_book_summary" =>
              (response.status = 200 /\ response.review_summary = None)
         /\ request.op = "generate_summary" => response.status = 500

(* the provider times out on the one request sent for a reviewed book *)
C25_Witness ==
  /\ request.op = "get_book_summary"
  /\ request.outcome = "timeout"
  /\ provider_calls = 1
  /\ response.status = 200
  /\ response.total_reviews > 0

(* the token POST /login gives the user now *)
TokenOf(u) ==
  Some(create_access_token([sub |-> u.username], Some(ACCESS_TOKEN_EXPIRE_MINUTES),
                           clock))

(* C26: POST /register carries no token, so no user it stores has the admin
   flag set: none of the stored users, all made by POST /register, passes the
   admin gate of POST /books and DELETE /books/{id}. *)
C26_RegisterNeverMakesAdmin ==
  \A u \in users :
    /\ ~u.is_admin
    /\ get_current_admin_user(users, TokenOf(u), clock).status # 200

(* C23: DELETE /books/{id} by an admin answers 404 and changes nothing for an
   id that is not stored, and answers 204 for a stored id, which is then not
   stored any more; GET /books/{id} answers 404 for an id that is not stored.
   So after a 204 a GET of that id and a second DELETE of it are answered
   404. *)
C23_DeleteFailFast ==
  /\ [][ (Idle /\ request'.op = "delete_book" /\ TokenGood(request'.token)
            /\ Caller(request'.token).is_admin) =>
           IF request'.book_id \notin BookIds(books)
             THEN response'.status = 404 /\ StoreUnchanged
             ELSE response'.status = 204 /\ request'.book_id \notin BookIds(books') ]_vars
  /\ [][ (Idle /\ request'.op = "get_book") =>
           (response'.status = 404 <=> request'.book_id \notin BookIds(books)) ]_vars

(* the admin deletes again a book of the shelf that was deleted before *)
C23_Witness ==
  /\ request.op = "delete_book"
  /\ request.book_id = ShelfBooks
  /\ TokenGood(request.token)
  /\ Caller(request.token).is_admin
  /\ response.status = 404
  /\ BookIds(books) = 1..(ShelfBooks - 1)

(* C27: POST /books/{id}/reviews and DELETE /books/{id} check the token, and
   DELETE the admin flag, before the book is looked up: without a valid token
   the answer is 401 and a DELETE by a user who is no admin is answered 403,
   whether or not the book is stored; 404 is answered only to a caller who
   passed these checks. *)
C27_AuthBeforeExistence ==
  [][ (Idle /\ request'.op \in {"create_review", "delete_book"}) =>
        /\ ~TokenGood(request'.token) => response'.status = 401
        /\ (request'.op = "delete_book" /\ TokenGood(request'.token)
              /\ ~Caller(request'.token).is_admin) => response'.status = 403
        /\ response'.status = 404 =>
             /\ TokenGood(request'.token)
             /\ request'.op = "delete_book" => Caller(request'.token).is_admin
             /\ request'.book_id \notin BookIds(books) ]_vars

(* the normal user asks to delete a book id that is not stored *)
C27_Witness ==
  /\ request.op = "delete_book"
  /\ request.book_id \notin BookIds(books)
  /\ TokenGood(request.token)
  /\ ~Caller(request.token).is_admin
  /\ response.status = 403

(* -------------------- terms of the properties on PUT ------------------ *)

(* the request being answered is a PUT for a book that was stored *)
UpdatesStored == Idle /\ request'.op = "update_book" /\ request'.book_id \in BookIds(books)

OldBook == CHOOSE b \in books : b.id = request'.book_id

NewBook == CHOOSE b \in books' : b.id = request'.book_id

(* the stored field holds the value the body gives for it *)
HoldsSupplied(b, f, v) ==
  IF f = "summary" THEN b[f] = v ELSE (v # None /\ b[f] = Val(v))

(* the fields named by the body are set to its values, nothing else changes *)
ExactlyPresentFieldsSet ==
  LET u == request'.book_update
  IN  /\ request'.book_id \in BookIds(books')
      /\ \A f \in u.fields_set : HoldsSupplied(NewBook, f, u.values[f])
      /\ \A f \in BookFields \ u.fields_set : NewBook[f] = OldBook[f]
      /\ books' \ {NewBook} = books \ {OldBook}
      /\ reviews' = reviews
      /\ users' = users

NullForRequired(u) == \E f \in u.fields_set \cap RequiredFields : u.values[f] = None

YearOutOfRange(u) ==
  /\ "year_published" \in u.fields_set
  /\ u.values["year_published"] # None
  /\ ~ValidYear(Val(u.values["year_published"]))

(* C22 as stated: a PUT /books/{id} on a stored book sets exactly the fields
   present in the body to the values given and leaves every other field, the
   id, the reviews and all other books unchanged. *)
C22_SetsExactlyPresentFields ==
  [][ UpdatesStored => ExactlyPresentFieldsSet ]_vars

(* C22: a PUT /books/{id} on a stored book is answered 200 unless the body
   gives a year out of range (422) or null for a required field (500); when
   answered 200 it sets exactly the fields present in the body to the values
   given and leaves every other field, the id, the reviews and all other books
   unchanged, a body without fields changing nothing; when not answered 200
   it changes nothing, the other fields present in the body included. *)
C22_PartialUpdate ==
  [][ UpdatesStored =>
        LET u == request'.book_update
        IN  IF YearOutOfRange(u) THEN response'.status = 422 /\ StoreUnchanged
            ELSE IF NullForRequired(u) THEN response'.status = 500 /\ StoreUnchanged
            ELSE /\ response'.status = 200
                 /\ ExactlyPresentFieldsSet
                 /\ u.fields_set = {} => StoreUnchanged ]_vars

(* title is set and summary cleared on book 1, its other fields and the other
   books of the shelf are as before *)
C22_Witness ==
  /\ request.op = "update_book"
  /\ response.status = 200
  /\ request.book_update.fields_set = {"title", "summary"}
  /\ request.book_update.values["summary"] = None
  /\ response.body \in books
  /\ response.body.title = <<"New">>
  /\ response.body.summary = None
  /\ response.body.author = <<"Test Author">>
  /\ response.body.year_published = FixtureYear
  /\ \E b \in books : b.id # request.book_id

(* C29: a PUT /books/{id} whose body gives null for title, author, genre or
   year_published counts the null as a field of the request: the write is
   refused and the stored books are unchanged, so no required field is left
   null; a null for summary in a request that is accepted clears the summary,
   and a body that holds nothing but a null summary is accepted. *)
C29_NullNeverStoredInRequiredField ==
  [][ UpdatesStored =>
        LET u == request'.book_update
        IN  /\ NullForRequired(u) => (response'.status # 200 /\ StoreUnchanged)
            /\ ("summary" \in u.fields_set /\ u.values["summary"] = None
                  /\ response'.status = 200) => NewBook.summary = None
            /\ (u.fields_set = {"summary"} /\ u.values["summary"] = None) =>
                 (response'.status = 200 /\ NewBook.summary = None) ]_vars

(* a body with a new genre and a null title is refused by the table *)
C29_Witness ==
  /\ request.op = "update_book"
  /\ request.book_id \in BookIds(books)
  /\ request.book_update.fields_set = {"title", "genre"}
  /\ request.book_update.values["title"] = None
  /\ request.book_update.values["genre"] # None
  /\ response.status = 500
  /\ \A b \in books : b.genre # <<"New">>

(* ----------------- terms of the properties on ranges ------------------ *)

RangesHold(bs, rs) ==
  /\ \A r \in BagToSet(rs) : 0 <= r.rating /\ r.rating <= 500
  /\ \A b \in bs : 1000 <= b.year_published /\ b.year_published <= 9999

(* the request being answered carries a year or a rating out of range *)
OutOfRange(req) ==
  \/ /\ req.op = "create_book"
     /\ (req.year_published < 1000 \/ req.year_published > 9999)
  \/ /\ req.op = "update_book"
     /\ req.book_update.values["year_published"] # None
     /\ (Val(req.book_update.values["year_published"]) < 1000
           \/ Val(req.book_update.values["year_published"]) > 9999)
  \/ /\ req.op = "create_review"
     /\ (req.rating < 0 \/ req.rating > 500)

(* the caller passes the dependency of the endpoint: none for PUT, a stored
   user for a review, an admin for a new book *)
PassesAuth(req) ==
  \/ req.op = "update_book"
  \/ req.op = "create_review" /\ TokenGood(req.token)
  \/ req.op = "create_book" /\ TokenGood(req.token) /\ Caller(req.token).is_admin

(* C21 as stated: every stored rating is within 0.0..5.0 and every stored year
   within 1000..9999, and a create or update whose value is out of range is
   answered 422 and changes nothing. *)
C21_OutOfRangeIs422 ==
  [][ /\ RangesHold(books', reviews')
      /\ (Idle /\ OutOfRange(request')) =>
           (response'.status = 422 /\ StoreUnchanged) ]_vars

(* C21: every stored rating is within 0.0..5.0 and every stored year within
   1000..9999; a create or update whose value is out of range changes nothing
   and is answered 422 when the caller passes the authentication of the
   endpoint, 401 or 403 when not. *)
C21_RangesHold ==
  [][ /\ RangesHold(books', reviews')
      /\ (Idle /\ OutOfRange(request')) =>
           /\ StoreUnchanged
           /\ response'.status = IF PassesAuth(request') THEN 422
                                  ELSE IF TokenGood(request'.token) THEN 403
                                  ELSE 401 ]_vars

(* the admin is refused a book of year 10000 while a book of year 9999 and a
   review rated 0.0 are stored *)
C21_Witness ==
  /\ request.op = "create_book"
  /\ request.year_published = YearMax + 1
  /\ PassesAuth(request)
  /\ response.status = 422
  /\ \E b \in books : b.year_published = YearMax
  /\ \E r \in BagToSet(reviews) : r.rating = 0

(* C28: whatever the interleaving of POST /books/{id}/reviews and DELETE
   /books/{id} requests running in parallel, every stored review names a
   stored book and a stored user: a review of a deleted book neither stays
   after the delete nor is inserted once the delete is committed. *)
C28_ReviewsReferenceStoredRows ==
  \A r \in BagToSet(reviews) :
    /\ r.book_id \in BookIds(books)
    /\ r.user_id \in {u.id : u \in users}

(* a review passed its lookup of the book, the delete of the book committed,
   and the insert of the review was refused *)
C28_Witness ==
  \E p, q \in Procs :
    /\ reg[p].pc = "done" /\ reg[p].op = "create_review" /\ reg[p].status = 500
    /\ reg[q].pc = "done" /\ reg[q].op = "delete_book" /\ reg[q].status = 204
    /\ reg[q].book_id = reg[p].book_id
    /\ reg[p].book_id \notin BookIds(books)

====
